---------------------------- MODULE Spec2Model ----------------------------
(***************************************************************************)
(* Model of the grouping / diff-resolution pass of the inkdrop visualizer  *)
(* (tldraw-renderer/src/TLDWrapper.tsx): parseModel and the functions it   *)
(* calls, and the handlers that start a pass.                              *)
(*                                                                         *)
(* Strings that the code splits on "." are kept as the sequence of their   *)
(* dot-separated segments (the value of split(".")); the empty string is   *)
(* the one-segment sequence <<"">>, as "".split(".") is [""].  A node id   *)
(* "<tok> <ref>" is kept as the record of its two space-separated tokens,  *)
(* so that id.split(" ")[1] is the field ref.                              *)
(***************************************************************************)
EXTENDS Naturals, Sequences, FiniteSets, TLC

VARIABLES
    session,                  \* "fresh": no storedData, the textareas and the Render button are shown;
                              \* "stored": storedData was loaded from the persistence collaborator
    model,                    \* the parsed graph: subgraphs[0] as [nodes, edges]
    planJson,                 \* the plan: NoPlan ("" or undefined) or [resource_changes |-> ...]
    detailed,                 \* storedData.detailed, or the detailed textarea in a fresh session
    showInactive,             \* storedData.showInactive, or the show-inactive textarea
    jsonArray,                \* Papa.parse(terraformResourcesCsv).data
    nodeGroups,               \* parseModel's local Map<string, NodeGroup>, in insertion order
    categoriesRef,            \* categoriesRef.current
    tagsRef,                  \* tagsRef.current
    deselectedCategoriesRef,  \* deselectedCategoriesRef.current
    selectedTagsRef,          \* selectedTagsRef.current
    storedNodeGroups,         \* the storedNodeGroups React state
    pc,                       \* the position of the running pass, "idle" before the first one
    firstPass,                \* history: the inputs and the result of the first completed pass,
                              \* and whether a later pass has completed on the same inputs
    loadingState              \* loadingState.status

vars == <<session, model, planJson, detailed, showInactive, jsonArray, nodeGroups,
          categoriesRef, tagsRef, deselectedCategoriesRef, selectedTagsRef,
          storedNodeGroups, pc, firstPass, loadingState>>

-----------------------------------------------------------------------------
(* Bounds of the explored inputs *)

MaxNodes == 3
MaxEdges == 2
MaxChanges == 2

-----------------------------------------------------------------------------
(* Generic helpers for JavaScript arrays *)

Range(s) == {s[i] : i \in 1..Len(s)}

Includes(s, x) == \E i \in 1..Len(s) : s[i] = x

\* Array.prototype.slice(k) followed by join("."): the empty array joins to ""
SliceJoin(b, k) == IF Len(b) <= k THEN <<"">> ELSE SubSeq(b, k + 1, Len(b))

Reverse(s) == [i \in 1..Len(s) |-> s[Len(s) + 1 - i]]

\* the subsequences of s of length at most n
RECURSIVE SubSeqsUpTo(_, _)
SubSeqsUpTo(s, n) ==
    IF s = <<>> \/ n = 0 THEN {<<>>}
    ELSE SubSeqsUpTo(Tail(s), n) \cup {<<Head(s)>> \o t : t \in SubSeqsUpTo(Tail(s), n - 1)}

\* the sequences over S of length at most n
RECURSIVE SeqsUpTo(_, _)
SeqsUpTo(S, n) ==
    IF n = 0 THEN {<<>>}
    ELSE LET shorter == SeqsUpTo(S, n - 1)
         IN  shorter \cup {Append(s, x) : s \in {t \in shorter : Len(t) = n - 1}, x \in S}

-----------------------------------------------------------------------------
(* Block classifier *)

\* the segments of the explored identifiers that start with "aws_"
AwsSegments == {"aws_instance", "aws_subnet", "aws_security_group", "aws_ami",
                "aws_unknown_widget"}

\* the segments of the explored identifiers that start with "provider["
ProviderSegments == {"provider[aws]"}

\* blockId.startsWith(kw + "."), kw a whole word without dots
StartsWithWordDot(blockId, kw) == Len(blockId) >= 2 /\ blockId[1] = kw

\* blockId.startsWith(prefix), prefix without dots: decided by the first segment
StartsWithPrefix(blockId, prefixed) == blockId[1] \in prefixed

\* lines 131-135: the module name and the block id left after "module.<name>."
StripModule_keepName(blockId) ==
    IF StartsWithWordDot(blockId, "module")
    THEN [moduleName |-> blockId[2], blockId |-> SliceJoin(blockId, 1)]
    ELSE [moduleName |-> "", blockId |-> blockId]

StripModule(blockId) ==
    IF StartsWithWordDot(blockId, "module")
    THEN [moduleName |-> blockId[2], blockId |-> SliceJoin(blockId, 2)]
    ELSE [moduleName |-> "", blockId |-> blockId]

checkHclBlockType(blockId0) ==
    LET s == StripModule(blockId0)
        blockId == s.blockId
        isModule == blockId = <<"">> /\ s.moduleName # ""
        isData == StartsWithWordDot(blockId, "data")
        isVariable == StartsWithWordDot(blockId, "var")
        isLocal == StartsWithWordDot(blockId, "local")
        isOutput == StartsWithWordDot(blockId, "output")
        isProvider == StartsWithPrefix(blockId, ProviderSegments)
        isResource == StartsWithPrefix(blockId, AwsSegments)
        isResourceWithName == isResource /\ Len(blockId) > 1
    IN  [processedBlockId |-> IF ~isResource /\ ~isModule THEN SliceJoin(blockId, 1) ELSE blockId,
         isData |-> isData, isVariable |-> isVariable, isResource |-> isResource,
         isLocal |-> isLocal, isOutput |-> isOutput, isProvider |-> isProvider,
         isModule |-> isModule, isResourceWithName |-> isResourceWithName,
         moduleName |-> s.moduleName]

\* the classifier's verdict as one kind (Unknown is the console.warn branch)
BlockKind(c) ==
    CASE c.isModule -> "Module"
      [] c.isData -> "Data"
      [] c.isVariable -> "Variable"
      [] c.isLocal -> "Local"
      [] c.isOutput -> "Output"
      [] c.isProvider -> "Provider"
      [] c.isResource -> "Resource"
      [] OTHER -> "Unknown"

undefined == "undefined"

\* lines 157-164; resourceName is undefined here where the code's [0].split throws
getResourceNameAndType(blockId) ==
    LET aws == {i \in 1..Len(blockId) : blockId[i] \in AwsSegments}
        resourceType == IF aws = {} THEN undefined
                        ELSE blockId[CHOOSE i \in aws : \A j \in aws : i <= j]
        after == {i \in 2..Len(blockId) : blockId[i - 1] = resourceType}
        resourceName == IF resourceType = undefined \/ after = {} THEN undefined
                        ELSE blockId[CHOOSE i \in after : \A j \in after : i <= j]
    IN  [resourceType |-> resourceType, resourceName |-> resourceName]

-----------------------------------------------------------------------------
(* Mapping table: one record per CSV row, each multi-value cell already    *)
(* split on ","; an entry of Arguments For Name is kept as its dot segments *)

MappingRow(main, missing, data, service, icon, category, args) ==
    [MainDiagramBlocks |-> main, MissingResources |-> missing, DataSources |-> data,
     ServiceName |-> service, IconPath |-> icon, SimplifiedCategory |-> category,
     ArgumentsForName |-> args]

\* an instance row that owns security groups and AMI data sources, and a
\* subnet row that owns security groups too
DefaultTable ==
    << MappingRow(<<"aws_instance">>, <<"aws_security_group">>, <<"aws_ami">>,
                  "EC2", "ec2.png", "Compute", << <<"-">> >>),
       MappingRow(<<"aws_subnet">>, <<"aws_security_group">>, <<"">>,
                  "VPC", "vpc.png", "Networking", << <<"-">> >>) >>

\* the instance row names its groups by the dotted attribute tags.Name
NamedTable ==
    << MappingRow(<<"aws_instance">>, <<"aws_security_group">>, <<"aws_ami">>,
                  "EC2", "ec2.png", "Compute", << <<"tags", "Name">> >>) >>

\* security groups listed as data sources and AMIs as missing resources
CrossTable ==
    << MappingRow(<<"aws_instance">>, <<"aws_ami">>, <<"aws_security_group">>,
                  "EC2", "ec2.png", "Compute", << <<"-">> >>) >>

\* two rows that list aws_instance as a main diagram block
DuplicateTable ==
    << MappingRow(<<"aws_instance">>, <<"aws_security_group">>, <<"aws_ami">>,
                  "EC2", "ec2.png", "Compute", << <<"name">> >>),
       MappingRow(<<"aws_subnet", "aws_instance">>, <<"aws_security_group">>, <<"">>,
                  "EC2 Fleet", "fleet.png", "Networking", << <<"-">>, <<"tags", "Name">> >>) >>

\* a table without rows
EmptyTable == <<>>

MappingTables == {DefaultTable, NamedTable, CrossTable, DuplicateTable, EmptyTable}

\* the categories of the explored tables, in the order of JavaScript's string "<"
CategoryOrder == <<"Compute", "Networking">>

CategoryRank(c) == CHOOSE i \in 1..Len(CategoryOrder) : CategoryOrder[i] = c

-----------------------------------------------------------------------------
(* Plan *)

\* planJson "" or undefined: computeTerraformPlan is false and planJsonObj undefined
NoPlan == [present |-> FALSE, parses |-> TRUE, resource_changes |-> <<>>]

\* an after without a tags object
NoTags == [present |-> FALSE, Name |-> ""]

\* a change record whose after is null or absent (a planned delete has after: null)
NoAfter == [present |-> FALSE, tags_all |-> <<>>, name |-> "", tags |-> NoTags]

\* address "<ref>" (indexed FALSE) or "<ref>[<key>]" (indexed TRUE)
Address(ref, indexed) == [ref |-> ref, indexed |-> indexed]

ResourceChange(address, actions, after) ==
    [address |-> address, change |-> [actions |-> actions, after |-> after]]

\* lines 176-178 and 530-532: resource.address === ref || resource.address.startsWith(ref + "[")
AddressMatches(address, ref) ==
    \/ address.ref = ref /\ ~address.indexed
    \/ address.ref = ref /\ address.indexed

ChangesOf(plan, ref) ==
    SelectSeq(plan.resource_changes, LAMBDA rc : AddressMatches(rc.address, ref))

\* actions.join("-")
RECURSIVE JoinDash(_)
JoinDash(actions) ==
    IF Len(actions) = 0 THEN ""
    ELSE IF Len(actions) = 1 THEN actions[1]
    ELSE actions[1] \o "-" \o JoinDash(Tail(actions))

NoOpOrRead == {"no-op", "read"}

\* lines 185-187: one step of the fold of a seeded node's change records
SeedFoldStep(generalState, newState) ==
    IF newState # generalState
    THEN IF newState \in NoOpOrRead /\ generalState \in NoOpOrRead THEN "read"
         ELSE IF generalState \in NoOpOrRead THEN newState ELSE "update"
    ELSE newState

\* lines 538-539: one step of the fold of an absorbed node's change records
NodeFoldStep(generalState, newState) ==
    IF newState # generalState
    THEN IF newState \in NoOpOrRead /\ generalState \in NoOpOrRead THEN "read" ELSE "update"
    ELSE newState

\* lines 182-188: resourceChanges.forEach from generalState on
RECURSIVE SeedFoldFrom(_, _)
SeedFoldFrom(generalState, resourceChanges) ==
    IF resourceChanges = <<>> THEN generalState
    ELSE SeedFoldFrom(SeedFoldStep(generalState, JoinDash(Head(resourceChanges).change.actions)),
                      Tail(resourceChanges))

SeedGeneralState(resourceChanges) == SeedFoldFrom("no-op", resourceChanges)

\* lines 535-540: resourceChanges.forEach from generalState on
RECURSIVE NodeFoldFrom(_, _)
NodeFoldFrom(generalState, resourceChanges) ==
    IF resourceChanges = <<>> THEN generalState
    ELSE NodeFoldFrom(NodeFoldStep(generalState, JoinDash(Head(resourceChanges).change.actions)),
                      Tail(resourceChanges))

NodeGeneralState(resourceChanges) == NodeFoldFrom("no-op", resourceChanges)

\* lines 547-548: the group's state after absorbing a node whose fold is generalState
AbsorbState(state, plan, generalState) ==
    IF state # "no-op" \/ plan = NoPlan THEN state
    ELSE IF generalState # "no-op" THEN "update" ELSE generalState

-----------------------------------------------------------------------------
(* The Map<string, NodeGroup>: a sequence of groups with distinct ids, in   *)
(* insertion order                                                         *)

KeyIndex(groups, key) ==
    IF \E i \in 1..Len(groups) : groups[i].id = key
    THEN CHOOSE i \in 1..Len(groups) : groups[i].id = key
    ELSE 0

\* Map.set: a present key keeps its place
MapSet(groups, group) ==
    LET i == KeyIndex(groups, group.id)
    IN  IF i = 0 THEN Append(groups, group) ELSE [groups EXCEPT ![i] = group]

MapDelete(groups, key) == SelectSeq(groups, LAMBDA g : g.id # key)

MemberIds(group) == {group.nodes[i].nodeModel : i \in 1..Len(group.nodes)}

\* lines 513-517 and 293-297: some group holds a node with this id
isNodePresent(groups, nodeId) ==
    \E i \in 1..Len(groups) : \E j \in 1..Len(groups[i].nodes) :
        groups[i].nodes[j].nodeModel = nodeId

-----------------------------------------------------------------------------
(* addNodeToGroup, lines 166-232 *)

\* Array.prototype.indexOf, counted from 1: 0 stands for -1
IndexOf(s, x) == IF Includes(s, x) THEN CHOOSE i \in 1..Len(s) : s[i] = x /\ \A j \in 1..(i - 1) : s[j] # x
                 ELSE 0

\* the value named when a property of null or undefined is read
TypeError == "TypeError"

\* lines 192-194: the attribute that names the resource, as its dot segments
nameAttribute(row, mainBlock, resourceType) ==
    LET resourceIndex == IF mainBlock THEN IndexOf(row.MainDiagramBlocks, resourceType) ELSE 0
        attributesArray == row.ArgumentsForName
    IN  IF resourceIndex # 0 /\ resourceIndex <= Len(attributesArray)
           /\ attributesArray[resourceIndex] \notin {<<"">>, <<"-">>}
        THEN attributesArray[resourceIndex]
        ELSE <<"name">>

\* after[key] for a key without dots: the explored after objects hold the
\* string attribute "name" only; "" stands for undefined and for ""
GetAttribute(after, attribute) ==
    IF attribute = <<"name">> THEN after.name ELSE ""

\* line 203, after[a][b]: reading a property of null or of undefined throws
GetNested(after, attribute) ==
    IF ~after.present THEN TypeError
    ELSE IF attribute[1] = "tags" /\ after.tags.present
         THEN (IF attribute[2] = "Name" THEN after.tags.Name ELSE "")
         ELSE TypeError

\* lines 196-206: the display name of the group, or TypeError where line 203 throws
ResolveName(row, mainBlock, resourceType, resourceChanges, resourceName) ==
    LET attribute == nameAttribute(row, mainBlock, resourceType)
        after == resourceChanges[1].change.after
        name == IF Len(resourceChanges) > 0 /\ after.present
                THEN (IF GetAttribute(after, attribute) # "" THEN GetAttribute(after, attribute)
                      ELSE after.name)
                ELSE ""
    IN  IF name # "" THEN name
        ELSE IF Len(resourceChanges) > 0 /\ Len(attribute) = 2 THEN GetNested(after, attribute)
        ELSE resourceName

\* lines 208-224: the group set for one matching row
NewGroup(node, row, mainBlock, resourceType, resourceChanges, moduleName) ==
    [nodes |-> << [nodeModel |-> node, resourceChanges |-> resourceChanges] >>,
     id |-> node.ref, mainNode |-> node,
     category |-> row.SimplifiedCategory,
     name |-> ResolveName(row, mainBlock, resourceType, resourceChanges,
                          getResourceNameAndType(checkHclBlockType(node.ref).processedBlockId).resourceName),
     state |-> IF Len(resourceChanges) > 0 THEN SeedGeneralState(resourceChanges) ELSE "no-op",
     type |-> resourceType, serviceName |-> row.ServiceName, iconPath |-> row.IconPath,
     connectionsIn |-> <<>>, connectionsOut |-> <<>>, moduleName |-> moduleName]

\* lines 190-226: jsonArray.data.forEach over the rows from index i on
RECURSIVE SetForRows(_, _, _, _, _, _, _, _)
SetForRows(rows, i, groups, node, mainBlock, resourceType, resourceChanges, moduleName) ==
    IF i > Len(rows) THEN groups
    ELSE LET row == rows[i]
             cell == IF mainBlock THEN row.MainDiagramBlocks ELSE row.MissingResources
             next == IF Includes(cell, resourceType)
                     THEN MapSet(groups, NewGroup(node, row, mainBlock, resourceType, resourceChanges, moduleName))
                     ELSE groups
         IN  SetForRows(rows, i + 1, next, node, mainBlock, resourceType, resourceChanges, moduleName)

addNodeToGroup(node, groups, mainBlock, rows, plan) ==
    IF node.ref = <<>> THEN groups
    ELSE LET c == checkHclBlockType(node.ref)
             rt == getResourceNameAndType(c.processedBlockId)
             resourceChanges == IF plan # NoPlan THEN ChangesOf(plan, node.ref) ELSE <<>>
         IN  IF c.isResourceWithName /\ rt.resourceType # undefined /\ rt.resourceName # undefined
             THEN SetForRows(rows, 1, groups, node, mainBlock, rt.resourceType,
                             resourceChanges, c.moduleName)
             ELSE groups

-----------------------------------------------------------------------------
(* getConnectedNodes, lines 501-557 *)

\* lines 519-523: some row has the group's type as a main block and the
\* node's type as a missing resource or as a data source
Eligible_anyType(rows, groupType, resourceType) ==
    \E i \in 1..Len(rows) : Includes(rows[i].MainDiagramBlocks, groupType)

Eligible(rows, groupType, resourceType) ==
    \E i \in 1..Len(rows) :
        /\ Includes(rows[i].MainDiagramBlocks, groupType)
        /\ \/ Includes(rows[i].MissingResources, resourceType)
           \/ Includes(rows[i].DataSources, resourceType)

\* lines 542-548: the group after the push of newNode and the update of its state
Absorbed(group, newNode, plan) ==
    LET resourceChanges == IF plan # NoPlan THEN ChangesOf(plan, newNode.ref) ELSE <<>>
    IN  [group EXCEPT
            !.nodes = Append(@, [nodeModel |-> newNode, resourceChanges |-> resourceChanges]),
            !.state = AbsorbState(@, plan, NodeGeneralState(resourceChanges))]

\* lines 509-523: the test that lets the node at the far end of an edge in
CanAbsorb_ownGroupOnly(groups, gi, edgeToId, rows) ==
    /\ edgeToId.ref # <<>>
    /\ LET c == checkHclBlockType(edgeToId.ref)
           rt == getResourceNameAndType(c.processedBlockId)
       IN  /\ c.isResourceWithName \/ c.isData
           /\ rt.resourceType # undefined /\ rt.resourceName # undefined
           /\ ~isNodePresent(<<groups[gi]>>, edgeToId)
           /\ Eligible(rows, groups[gi].type, rt.resourceType)

CanAbsorb_anyKind(groups, gi, edgeToId, rows) ==
    /\ edgeToId.ref # <<>>
    /\ LET c == checkHclBlockType(edgeToId.ref)
           rt == getResourceNameAndType(c.processedBlockId)
       IN  /\ rt.resourceType # undefined /\ rt.resourceName # undefined
           /\ ~isNodePresent(groups, edgeToId)
           /\ Eligible(rows, groups[gi].type, rt.resourceType)

CanAbsorb(groups, gi, edgeToId, rows) ==
    /\ edgeToId.ref # <<>>
    /\ LET c == checkHclBlockType(edgeToId.ref)
           rt == getResourceNameAndType(c.processedBlockId)
       IN  /\ c.isResourceWithName \/ c.isData
           /\ rt.resourceType # undefined /\ rt.resourceName # undefined
           /\ ~isNodePresent(groups, edgeToId)
           /\ Eligible(rows, groups[gi].type, rt.resourceType)

RECURSIVE getConnectedNodes(_, _, _, _, _, _, _)
RECURSIVE VisitEdges(_, _, _, _, _, _, _, _)

\* the forEach of lines 504-556 over the filtered edges es, from index k on
VisitEdges(es, k, gi, groups, subgraph, start, rows, plan) ==
    IF k > Len(es) THEN groups
    ELSE LET edgeToId == es[k].targets[IF start THEN 2 ELSE 1]
             after ==
                 IF CanAbsorb(groups, gi, edgeToId, rows) /\ Includes(subgraph.nodes, edgeToId)
                 THEN LET pushed == [groups EXCEPT ![gi] = Absorbed(@, edgeToId, plan)]
                          deeper == getConnectedNodes(edgeToId, gi, pushed, subgraph, start, rows, plan)
                      IN  getConnectedNodes(edgeToId, gi, deeper, subgraph, ~start, rows, plan)
                 ELSE groups
         IN  VisitEdges(es, k + 1, gi, after, subgraph, start, rows, plan)

\* gi is the place of nodeGroup in groups: the code passes the group object itself
getConnectedNodes(node, gi, groups, subgraph, start, rows, plan) ==
    LET es == SelectSeq(subgraph.edges, LAMBDA e : e.targets[IF start THEN 1 ELSE 2] = node)
    IN  VisitEdges(es, 1, gi, groups, subgraph, start, rows, plan)

-----------------------------------------------------------------------------
(* parseModel, lines 273-386, phase by phase *)

\* lines 279-283: addNodeToGroup(node, nodeGroups, true, ...) for the nodes from index k on
RECURSIVE SeedFrom(_, _, _, _, _)
SeedFrom(nodes, k, groups, rows, plan) ==
    IF k > Len(nodes) THEN groups
    ELSE SeedFrom(nodes, k + 1, addNodeToGroup(nodes[k], groups, TRUE, rows, plan), rows, plan)

\* lines 279-283: some addNodeToGroup call reaches line 203 with an after that
\* is null or lacks the attribute's object, whatever a later row sets
SeedThrows(subgraph, rows, plan) ==
    \E k \in 1..Len(subgraph.nodes), i \in 1..Len(rows) :
        LET node == subgraph.nodes[k]
            c == checkHclBlockType(node.ref)
            rt == getResourceNameAndType(c.processedBlockId)
        IN  /\ node.ref # <<>>
            /\ c.isResourceWithName /\ rt.resourceType # undefined /\ rt.resourceName # undefined
            /\ Includes(rows[i].MainDiagramBlocks, rt.resourceType)
            /\ ResolveName(rows[i], TRUE, rt.resourceType,
                           IF plan # NoPlan THEN ChangesOf(plan, node.ref) ELSE <<>>,
                           rt.resourceName) = TypeError

\* line 277 and lines 279-283
Seeded_staleMap(subgraph, rows, plan) == SeedFrom(subgraph.nodes, 1, nodeGroups, rows, plan)

Seeded(subgraph, rows, plan) == SeedFrom(subgraph.nodes, 1, <<>>, rows, plan)

\* lines 285-288: nodeGroups.forEach from the group at index gi on
RECURSIVE ExpandFrom(_, _, _, _, _)
ExpandFrom_outgoingOnly(groups, gi, subgraph, rows, plan) ==
    IF gi > Len(groups) THEN groups
    ELSE LET out == getConnectedNodes(groups[gi].mainNode, gi, groups, subgraph, TRUE, rows, plan)
         IN  ExpandFrom(out, gi + 1, subgraph, rows, plan)

ExpandFrom(groups, gi, subgraph, rows, plan) ==
    IF gi > Len(groups) THEN groups
    ELSE LET out == getConnectedNodes(groups[gi].mainNode, gi, groups, subgraph, TRUE, rows, plan)
             in == getConnectedNodes(groups[gi].mainNode, gi, out, subgraph, FALSE, rows, plan)
         IN  ExpandFrom(in, gi + 1, subgraph, rows, plan)

Expanded(groups, subgraph, rows, plan) == ExpandFrom(groups, 1, subgraph, rows, plan)

\* lines 292-300: the nodes from index k on that no group holds
RECURSIVE OrphansFrom(_, _, _, _, _)
OrphansFrom_asMainBlock(nodes, k, groups, rows, plan) ==
    IF k > Len(nodes) THEN groups
    ELSE LET next == IF ~isNodePresent(groups, nodes[k])
                     THEN addNodeToGroup(nodes[k], groups, TRUE, rows, plan)
                     ELSE groups
         IN  OrphansFrom(nodes, k + 1, next, rows, plan)

OrphansFrom(nodes, k, groups, rows, plan) ==
    IF k > Len(nodes) THEN groups
    ELSE LET next == IF ~isNodePresent(groups, nodes[k])
                     THEN addNodeToGroup(nodes[k], groups, FALSE, rows, plan)
                     ELSE groups
         IN  OrphansFrom(nodes, k + 1, next, rows, plan)

\* lines 290-301
WithOrphans(groups, subgraph, rows, plan, isDetailed) ==
    IF isDetailed THEN OrphansFrom(subgraph.nodes, 1, groups, rows, plan) ELSE groups

\* lines 306-311
WithoutInactiveGroups_anyMember(groups) ==
    SelectSeq(groups, LAMBDA g : \E j \in 1..Len(g.nodes) : Len(g.nodes[j].resourceChanges) # 0)

WithoutInactiveGroups(groups) ==
    SelectSeq(groups, LAMBDA g : Len(g.nodes[1].resourceChanges) # 0)

\* lines 313-317
WithoutInactiveNodes(groups) ==
    [i \in 1..Len(groups) |->
        [groups[i] EXCEPT !.nodes = SelectSeq(@, LAMBDA n : Len(n.resourceChanges) > 0)]]

\* lines 304-318
Pruned_groupsOnly(groups, plan, isShowInactive) ==
    IF ~isShowInactive /\ plan # NoPlan THEN WithoutInactiveGroups(groups) ELSE groups

Pruned(groups, plan, isShowInactive) ==
    IF ~isShowInactive /\ plan # NoPlan
    THEN WithoutInactiveNodes(WithoutInactiveGroups(groups))
    ELSE groups

\* lines 244-248: Array.prototype.sort with the comparator on "<" and ">"
RECURSIVE SortCategories(_)
SortCategories(catList) ==
    IF catList = <<>> THEN <<>>
    ELSE LET least == CHOOSE i \in 1..Len(catList) :
                          \A j \in 1..Len(catList) : CategoryRank(catList[i]) <= CategoryRank(catList[j])
             rest == [j \in 1..(Len(catList) - 1) |-> IF j < least THEN catList[j] ELSE catList[j + 1]]
         IN  <<catList[least]>> \o SortCategories(rest)

\* lines 235-241: the categories of the groups from index i on, each pushed once
RECURSIVE CollectCategories(_, _, _)
CollectCategories(groups, i, catList) ==
    IF i > Len(groups) THEN catList
    ELSE CollectCategories(groups, i + 1,
                           IF Includes(catList, groups[i].category) THEN catList
                           ELSE Append(catList, groups[i].category))

findAndSetCategories_unsorted(groups) == CollectCategories(groups, 1, <<>>)

\* lines 234-251: the value given to categoriesRef.current
findAndSetCategories(groups) == SortCategories(CollectCategories(groups, 1, <<>>))

\* lines 322-327
WithoutDeselected_inverted(groups, deselected) ==
    SelectSeq(groups, LAMBDA g : Includes(deselected, g.category))

WithoutDeselected(groups, deselected) ==
    SelectSeq(groups, LAMBDA g : ~Includes(deselected, g.category))

\* Object.entries(change.after?.tags_all || {}): the tag keys of one change record
TagKeys(resourceChange) ==
    IF resourceChange.change.after = NoAfter THEN <<>>
    ELSE resourceChange.change.after.tags_all

RECURSIVE Flatten(_)
Flatten(ss) == IF ss = <<>> THEN <<>> ELSE Head(ss) \o Flatten(Tail(ss))

\* lines 253-271: the value given to tagsRef.current (the tag names; the
\* values ride along and decide nothing)
findAndSetTags(groups) ==
    Flatten([i \in 1..Len(groups) |->
        Flatten([j \in 1..Len(groups[i].nodes) |->
            Flatten([k \in 1..Len(groups[i].nodes[j].resourceChanges) |->
                TagKeys(groups[i].nodes[j].resourceChanges[k])])])])

HasSelectedTag_mainNodeOnly(group, selected) ==
    \E k \in 1..Len(group.nodes[1].resourceChanges) :
        \E t \in 1..Len(TagKeys(group.nodes[1].resourceChanges[k])) :
            Includes(selected, TagKeys(group.nodes[1].resourceChanges[k])[t])

\* lines 334-340: some change record of some node has a selected tag key
HasSelectedTag(group, selected) ==
    \E j \in 1..Len(group.nodes) : \E k \in 1..Len(group.nodes[j].resourceChanges) :
        \E t \in 1..Len(TagKeys(group.nodes[j].resourceChanges[k])) :
            Includes(selected, TagKeys(group.nodes[j].resourceChanges[k])[t])

\* lines 330-344
WithSelectedTags(groups, selected) ==
    IF Len(selected) > 0 THEN SelectSeq(groups, LAMBDA g : HasSelectedTag(g, selected))
    ELSE groups

\* lines 354-363: the place of the first entry whose group holds the node, 0 for undefined
OwnerIndex(groups, nodeId) ==
    IF isNodePresent(groups, nodeId)
    THEN CHOOSE i \in 1..Len(groups) :
            /\ nodeId \in MemberIds(groups[i])
            /\ \A j \in 1..(i - 1) : nodeId \notin MemberIds(groups[j])
    ELSE 0

\* line 364, fromGroup !== toGroup: the two entries are arrays made by two
\* separate Array.from(nodeGroups) calls, so they are never the same object
EntriesDiffer(fromIndex, toIndex) == TRUE

fromGroupKey_address(groups, fromIndex, edgeFromId) == edgeFromId.ref

\* lines 365-366: the keys pushed for an edge
fromGroupKey(groups, fromIndex, edgeFromId) == groups[fromIndex].id

toGroupKey_address(groups, toIndex, edgeToId) == edgeToId.ref

toGroupKey(groups, toIndex, edgeToId) == groups[toIndex].id

\* lines 350-372: model.subgraphs[0].edges.forEach from index k on
RECURSIVE ConnectFrom(_, _, _)
ConnectFrom(edges, k, groups) ==
    IF k > Len(edges) THEN groups
    ELSE LET edgeFromId == edges[k].targets[1]
             edgeToId == edges[k].targets[2]
             f == OwnerIndex(groups, edgeFromId)
             t == OwnerIndex(groups, edgeToId)
             next ==
                 IF f # 0 /\ t # 0 /\ EntriesDiffer(f, t)
                 THEN LET fromKey == fromGroupKey(groups, f, edgeFromId)
                          toKey == toGroupKey(groups, t, edgeToId)
                      IN  IF ~Includes(groups[f].connectionsOut, toKey)
                             /\ ~Includes(groups[t].connectionsIn, fromKey)
                          THEN LET pushedOut == [groups EXCEPT ![f].connectionsOut = Append(@, toKey)]
                               IN  [pushedOut EXCEPT ![t].connectionsIn = Append(@, fromKey)]
                          ELSE groups
                 ELSE groups
         IN  ConnectFrom(edges, k + 1, next)

Connected(groups, subgraph) == ConnectFrom(subgraph.edges, 1, groups)

-----------------------------------------------------------------------------
(* The explored inputs *)

NodeId(tok, ref) == [tok |-> tok, ref |-> ref]

Edge(from, to) == [targets |-> <<from, to>>]

\* a graph whose nodes and edges lie in its first subgraph
Graph(nodes, edges) == [subgraphs |-> 1, nodes |-> nodes, edges |-> edges]

\* a graph without subgraph, as of "digraph {}": model.subgraphs is empty
NoSubgraph == [subgraphs |-> 0, nodes |-> <<>>, edges |-> <<>>]

Web == NodeId("n1", <<"aws_instance", "web">>)
Sg == NodeId("n2", <<"aws_security_group", "sg">>)
Subnet == NodeId("n3", <<"module", "vpc", "aws_subnet", "this">>)
Ami == NodeId("n4", <<"data", "aws_ami", "ubuntu">>)
\* a variable whose name reads like a resource address: only the kind test of
\* lines 509-511 keeps it out of a group
Region == NodeId("n5", <<"var", "aws_security_group", "sg">>)
Widget == NodeId("n6", <<"aws_unknown_widget", "x">>)

NodePool == <<Web, Sg, Subnet, Ami, Region, Widget>>

\* node lists: at most MaxNodes of the pool, in the pool's order or in the reverse order
NodeLists == LET up == SubSeqsUpTo(NodePool, MaxNodes) IN up \cup {Reverse(l) : l \in up}

EdgePool ==
    {Edge(Web, Sg), Edge(Subnet, Sg), Edge(Sg, Ami), Edge(Sg, Sg),
     Edge(Web, Subnet), Edge(Web, Region), Edge(Widget, Web)}

\* graphs of the sessions that start from the textareas
FreshGraphs ==
    {Graph(nodes, edges) : nodes \in NodeLists,
                           edges \in SeqsUpTo(EdgePool, MaxEdges)}

Plan(resourceChanges) == [present |-> TRUE, parses |-> TRUE, resource_changes |-> resourceChanges]

\* a plan text that JSON.parse rejects (line 276)
MalformedPlan == [present |-> TRUE, parses |-> FALSE, resource_changes |-> <<>>]

Tagged(keys) == [present |-> TRUE, tags_all |-> keys, name |-> "", tags |-> NoTags]

\* an after object with a name attribute, and one with a tags object holding Name
Named(name) == [present |-> TRUE, tags_all |-> <<>>, name |-> name, tags |-> NoTags]

NameTagged(name) ==
    [present |-> TRUE, tags_all |-> <<>>, name |-> "", tags |-> [present |-> TRUE, Name |-> name]]

ScenarioGraph == Graph(<<Web, Sg>>, <<Edge(Web, Sg)>>)

ScenarioPlan == Plan(<<ResourceChange(Address(Web.ref, FALSE), <<"create">>, NoAfter)>>)

FreshPlans == {NoPlan, ScenarioPlan}

\* the change records of the plans explored on the scenario graph
ChangePool ==
    {ResourceChange(Address(ref, indexed), actions, NoAfter) :
        ref \in {Web.ref, Sg.ref}, indexed \in BOOLEAN,
        actions \in {<<"create">>, <<"no-op">>, <<"read">>, <<"delete">>, <<"delete", "create">>}}

FoldPlans == {Plan(rcs) : rcs \in SeqsUpTo(ChangePool, MaxChanges)}

\* graphs and plans explored with every table
TableGraphs ==
    {NoSubgraph,
     ScenarioGraph,
     Graph(<<Web, Sg, Ami, Widget>>, <<Edge(Web, Sg), Edge(Web, Ami), Edge(Widget, Web)>>),
     Graph(<<Ami, Sg, Web>>, <<Edge(Sg, Ami), Edge(Sg, Web)>>)}

TablePlans ==
    {NoPlan,
     Plan(<<>>),
     MalformedPlan,
     Plan(<<ResourceChange(Address(Web.ref, FALSE), <<"delete">>, NoAfter)>>),
     Plan(<<ResourceChange(Address(Web.ref, FALSE), <<"create">>, Named("web-1"))>>),
     Plan(<<ResourceChange(Address(Web.ref, FALSE), <<"update">>, NameTagged("front")),
            ResourceChange(Address(Sg.ref, FALSE), <<"create">>, Tagged(<<"env">>))>>)}

\* graphs and plans of the sessions that start from stored data
StoredGraphs ==
    {ScenarioGraph,
     Graph(<<Subnet, Web, Sg, Ami>>, <<Edge(Web, Subnet), Edge(Web, Ami), Edge(Subnet, Web)>>),
     Graph(<<Web, Subnet, Sg>>, <<Edge(Web, Sg), Edge(Subnet, Sg), Edge(Sg, Sg)>>),
     Graph(<<Web, Sg, Ami>>, <<Edge(Web, Sg), Edge(Sg, Ami), Edge(Ami, Sg)>>)}

StoredPlans ==
    {NoPlan,
     ScenarioPlan,
     Plan(<<ResourceChange(Address(Web.ref, FALSE), <<"create">>, Tagged(<<"env">>)),
            ResourceChange(Address(Subnet.ref, FALSE), <<"no-op">>, Tagged(<<"team">>)),
            ResourceChange(Address(Sg.ref, TRUE), <<"update">>, Tagged(<<"env", "team">>))>>)}

-----------------------------------------------------------------------------
(* State machine *)

NoPass == [done |-> FALSE, inputs |-> <<>>, result |-> <<>>, repeated |-> FALSE]

InitCommon ==
    /\ nodeGroups = <<>>
    /\ categoriesRef = <<>>
    /\ tagsRef = <<>>
    /\ deselectedCategoriesRef = <<>>
    /\ selectedTagsRef = <<>>
    /\ storedNodeGroups = <<>>
    /\ pc = "idle"
    /\ firstPass = NoPass

\* a fresh session on any small graph
InitFreshGraphs ==
    /\ session = "fresh"
    /\ model \in FreshGraphs
    /\ planJson \in FreshPlans
    /\ detailed \in BOOLEAN
    /\ showInactive = FALSE
    /\ jsonArray = DefaultTable
    /\ loadingState = "ready"
    /\ InitCommon

\* a fresh session on the scenario graph with any small plan
InitFreshPlans ==
    /\ session = "fresh"
    /\ model = ScenarioGraph
    /\ planJson \in FoldPlans
    /\ detailed = FALSE
    /\ showInactive \in BOOLEAN
    /\ jsonArray = DefaultTable
    /\ loadingState = "ready"
    /\ InitCommon

\* a fresh session on a few graphs and plans with any of the tables
InitTables ==
    /\ session = "fresh"
    /\ model \in TableGraphs
    /\ planJson \in TablePlans
    /\ detailed \in BOOLEAN
    /\ showInactive \in BOOLEAN
    /\ jsonArray \in MappingTables
    /\ loadingState = "loading"
    /\ InitCommon

\* a session reloaded from stored data
InitStored ==
    /\ session = "stored"
    /\ model \in StoredGraphs
    /\ planJson \in StoredPlans
    /\ detailed \in BOOLEAN
    /\ showInactive \in BOOLEAN
    /\ jsonArray = DefaultTable
    /\ loadingState = "ready"
    /\ InitCommon

\* a session reloaded from stored data whose editor snapshot is still to be loaded
InitReload ==
    /\ session = "stored"
    /\ model = ScenarioGraph
    /\ planJson \in FreshPlans
    /\ detailed \in BOOLEAN
    /\ showInactive \in BOOLEAN
    /\ jsonArray = DefaultTable
    /\ loadingState = "loading"
    /\ InitCommon

Init == InitFreshGraphs \/ InitFreshPlans \/ InitTables \/ InitStored \/ InitReload

\* what a pass reads besides the graph, the plan and the table
PassInputs ==
    [detailed |-> detailed, showInactive |-> showInactive,
     deselected |-> Range(deselectedCategoriesRef), selected |-> Range(selectedTagsRef)]

\* lines 273-283: the pass parses the plan text, starts with a new Map and
\* seeds it; an exception of JSON.parse (line 276) or of the name lookup
\* (line 203) leaves parseModel, and its Map with it
StartPass ==
    IF (planJson.present /\ ~planJson.parses) \/ SeedThrows(model, jsonArray, planJson)
    THEN /\ nodeGroups' = <<>>
         /\ pc' = "thrown"
    ELSE /\ nodeGroups' = Seeded(model, jsonArray, planJson)
         /\ pc' = "seeded"

\* lines 377-384: the groups a first render sends to the store, for a graph,
\* plan and table on which the pass returns
FirstRender(subgraph, rows, plan, isDetailed, isShowInactive) ==
    Connected(
        WithSelectedTags(
            WithoutDeselected(
                Pruned(WithOrphans(Expanded(Seeded(subgraph, rows, plan), subgraph, rows, plan),
                                   subgraph, rows, plan, isDetailed),
                       plan, isShowInactive),
                <<>>),
            <<>>),
        subgraph)

\* lines 80-98, the continuation of `await getData()`, taken before the first
\* pass: storedNodeGroups is given the stored groups; with a stored editor
\* snapshot the status is ready when JSON.parse and loadSnapshot accept it and
\* error when one of them throws; without stored state it is ready
getAndUpdateState ==
    /\ loadingState = "loading"
    /\ pc = "idle"
    /\ IF session = "stored"
       THEN /\ storedNodeGroups' = FirstRender(model, jsonArray, planJson, detailed, showInactive)
            /\ loadingState' \in {"ready", "error"}
       ELSE /\ storedNodeGroups' = <<>>
            /\ loadingState' = "ready"
    /\ UNCHANGED <<session, model, planJson, detailed, showInactive, jsonArray, nodeGroups,
                   categoriesRef, tagsRef, deselectedCategoriesRef, selectedTagsRef, pc, firstPass>>

\* lines 574-581
handleRenderButtonClick ==
    /\ session = "fresh"
    /\ pc = "idle"
    /\ StartPass
    /\ UNCHANGED <<loadingState, session, model, planJson, detailed, showInactive, jsonArray, categoriesRef,
                   tagsRef, deselectedCategoriesRef, selectedTagsRef, storedNodeGroups, firstPass>>

\* lines 60-63 and 617-621: the first refreshWhiteboard of a stored session
refreshWhiteboard ==
    /\ session = "stored"
    /\ pc = "idle"
    /\ StartPass
    /\ UNCHANGED <<loadingState, session, model, planJson, detailed, showInactive, jsonArray, categoriesRef,
                   tagsRef, deselectedCategoriesRef, selectedTagsRef, storedNodeGroups, firstPass>>

\* lines 623-629
toggleShowUnplanned ==
    /\ session = "stored"
    /\ pc = "done"
    /\ showInactive' = ~showInactive
    /\ StartPass
    /\ UNCHANGED <<loadingState, session, model, planJson, detailed, jsonArray, categoriesRef,
                   tagsRef, deselectedCategoriesRef, selectedTagsRef, storedNodeGroups, firstPass>>

\* lines 631-637
toggleDetailed ==
    /\ session = "stored"
    /\ pc = "done"
    /\ detailed' = ~detailed
    /\ StartPass
    /\ UNCHANGED <<loadingState, session, model, planJson, showInactive, jsonArray, categoriesRef,
                   tagsRef, deselectedCategoriesRef, selectedTagsRef, storedNodeGroups, firstPass>>

\* lines 640-646 and 651-657: remove the item when listed, push it otherwise
Toggled(list, item) ==
    IF Includes(list, item) THEN SelectSeq(list, LAMBDA x : x # item) ELSE Append(list, item)

\* lines 639-648, for a category the Categories menu lists (lines 691-701)
toggleCategory ==
    /\ session = "stored"
    /\ pc = "done"
    /\ \E category \in Range(categoriesRef) :
          deselectedCategoriesRef' = Toggled(deselectedCategoriesRef, category)
    /\ StartPass
    /\ UNCHANGED <<loadingState, session, model, planJson, detailed, showInactive, jsonArray, categoriesRef,
                   tagsRef, selectedTagsRef, storedNodeGroups, firstPass>>

\* lines 650-659, for a tag the Tags menu lists (lines 703-715)
toggleTag ==
    /\ session = "stored"
    /\ pc = "done"
    /\ \E tag \in Range(tagsRef) : selectedTagsRef' = Toggled(selectedTagsRef, tag)
    /\ StartPass
    /\ UNCHANGED <<loadingState, session, model, planJson, detailed, showInactive, jsonArray, categoriesRef,
                   tagsRef, deselectedCategoriesRef, storedNodeGroups, firstPass>>

\* lines 285-288
expandGroups ==
    /\ pc = "seeded"
    /\ nodeGroups' = Expanded(nodeGroups, model, jsonArray, planJson)
    /\ pc' = "expanded"
    /\ UNCHANGED <<loadingState, session, model, planJson, detailed, showInactive, jsonArray, categoriesRef,
                   tagsRef, deselectedCategoriesRef, selectedTagsRef, storedNodeGroups, firstPass>>

\* lines 290-301
addOrphans ==
    /\ pc = "expanded"
    /\ IF detailed /\ model.subgraphs = 0
       THEN \* line 292: model.subgraphs[0] is undefined
            nodeGroups' = <<>> /\ pc' = "thrown"
       ELSE /\ nodeGroups' = WithOrphans(nodeGroups, model, jsonArray, planJson, detailed)
            /\ pc' = "orphaned"
    /\ UNCHANGED <<loadingState, session, model, planJson, detailed, showInactive, jsonArray, categoriesRef,
                   tagsRef, deselectedCategoriesRef, selectedTagsRef, storedNodeGroups, firstPass>>

\* lines 304-318
pruneInactive ==
    /\ pc = "orphaned"
    /\ nodeGroups' = Pruned(nodeGroups, planJson, showInactive)
    /\ pc' = "pruned"
    /\ UNCHANGED <<loadingState, session, model, planJson, detailed, showInactive, jsonArray, categoriesRef,
                   tagsRef, deselectedCategoriesRef, selectedTagsRef, storedNodeGroups, firstPass>>

\* lines 320-327
filterCategories ==
    /\ pc = "pruned"
    /\ categoriesRef' = findAndSetCategories(nodeGroups)
    /\ nodeGroups' = WithoutDeselected(nodeGroups, deselectedCategoriesRef)
    /\ pc' = "categoryFiltered"
    /\ UNCHANGED <<loadingState, session, model, planJson, detailed, showInactive, jsonArray,
                   tagsRef, deselectedCategoriesRef, selectedTagsRef, storedNodeGroups, firstPass>>

\* lines 329-344
filterTags ==
    /\ pc = "categoryFiltered"
    /\ tagsRef' = findAndSetTags(nodeGroups)
    /\ nodeGroups' = WithSelectedTags(nodeGroups, selectedTagsRef)
    /\ pc' = "tagFiltered"
    /\ UNCHANGED <<loadingState, session, model, planJson, detailed, showInactive, jsonArray, categoriesRef,
                   deselectedCategoriesRef, selectedTagsRef, storedNodeGroups, firstPass>>

\* lines 349-372 and 385
computeConnections ==
    /\ pc = "tagFiltered"
    /\ IF model.subgraphs = 0
       THEN \* line 350: model.subgraphs[0] is undefined
            /\ nodeGroups' = <<>>
            /\ pc' = "thrown"
            /\ UNCHANGED <<storedNodeGroups, firstPass>>
       ELSE /\ nodeGroups' = Connected(nodeGroups, model)
            /\ storedNodeGroups' = nodeGroups'
            /\ firstPass' =
                   IF ~firstPass.done
                   THEN [done |-> TRUE, inputs |-> <<PassInputs>>, result |-> nodeGroups',
                         repeated |-> FALSE]
                   ELSE [firstPass EXCEPT !.repeated = @ \/ firstPass.inputs = <<PassInputs>>]
            /\ pc' = "done"
    /\ UNCHANGED <<loadingState, session, model, planJson, detailed, showInactive, jsonArray, categoriesRef,
                   tagsRef, deselectedCategoriesRef, selectedTagsRef>>

Next ==
    \/ getAndUpdateState
    \/ handleRenderButtonClick
    \/ refreshWhiteboard
    \/ toggleShowUnplanned
    \/ toggleDetailed
    \/ toggleCategory
    \/ toggleTag
    \/ expandGroups
    \/ addOrphans
    \/ pruneInactive
    \/ filterCategories
    \/ filterTags
    \/ computeConnections

Spec == Init /\ [][Next]_vars

\* parseModel is synchronous: a started pass moves on from every position
\* inside it, until it returns or throws
PassRunsOn ==
    /\ pc \in {"seeded", "expanded", "orphaned", "pruned", "categoryFiltered", "tagFiltered"}
    /\ pc' \in {"expanded", "orphaned", "pruned", "categoryFiltered", "tagFiltered",
                "done", "thrown"}

\* the sessions on the graphs with cycles and self-edges, with passes that run on
LiveSpec == (InitTables \/ InitStored \/ InitReload) /\ [][Next]_vars /\ WF_pc(PassRunsOn)

-----------------------------------------------------------------------------
(* Properties *)

\* the places <<i, j>> of the members of all groups
MemberPlaces(groups) ==
    UNION {{<<i, j>> : j \in 1..Len(groups[i].nodes)} : i \in 1..Len(groups)}

MemberAt(groups, p) == groups[p[1]].nodes[p[2]].nodeModel

KindOf(nodeId) == BlockKind(checkHclBlockType(nodeId.ref))

\* C1: after seeding and expansion, before any filtering, no node id is a
\* member of two groups, nor twice a member of one group.
C1_NoDuplicateMember ==
    pc = "expanded" =>
        \A p, q \in MemberPlaces(nodeGroups) :
            MemberAt(nodeGroups, p) = MemberAt(nodeGroups, q) => p = q

\* a satellite with edges from two seeds has been claimed, and both seeds have their group
C1_Witness ==
    /\ pc = "expanded"
    /\ Len(nodeGroups) = 2
    /\ Includes(model.edges, Edge(Web, Sg)) /\ Includes(model.edges, Edge(Subnet, Sg))
    /\ isNodePresent(nodeGroups, Sg)

\* C2 as claimed: without detailed mode every member of every group is
\* classified Resource.
C2_MembersAreResources ==
    ~detailed =>
        \A p \in MemberPlaces(nodeGroups) : KindOf(MemberAt(nodeGroups, p)) = "Resource"

\* C2 as amended: without detailed mode every member of every group is
\* classified Resource or Data; no Variable, Local, Output, Provider, Module
\* or Unknown node is a member.
C2_MembersAreResourcesOrData ==
    ~detailed =>
        \A p \in MemberPlaces(nodeGroups) :
            KindOf(MemberAt(nodeGroups, p)) \in {"Resource", "Data"}

\* a data source has been absorbed into a group
C2_Witness ==
    /\ pc = "expanded"
    /\ ~detailed
    /\ \E p \in MemberPlaces(nodeGroups) : KindOf(MemberAt(nodeGroups, p)) = "Data"

\* C3: a pass that completes on the inputs of the first completed pass (same
\* graph, plan, flags and selections) yields the groups of the first pass:
\* same ids, states, members and connections.
C3_SameInputsSameResult ==
    (pc = "done" /\ firstPass.done /\ firstPass.inputs = <<PassInputs>>) =>
        nodeGroups = firstPass.result /\ storedNodeGroups = firstPass.result

\* a later pass has completed on the inputs of the first, with connected groups
C3_Witness ==
    /\ pc = "done"
    /\ firstPass.repeated
    /\ firstPass.inputs = <<PassInputs>>
    /\ \E i \in 1..Len(nodeGroups) : Len(nodeGroups[i].connectionsOut) > 0

\* the action tags of a member's change records, each actions.join("-")
MemberTags(member) ==
    [k \in 1..Len(member.resourceChanges) |-> JoinDash(member.resourceChanges[k].change.actions)]

\* the group has two members, one with the single change record a and the
\* other with the single change record b
TwoMembersWith(group, a, b) ==
    /\ Len(group.nodes) = 2
    /\ \E j, k \in 1..2 :
          j # k /\ MemberTags(group.nodes[j]) = <<a>> /\ MemberTags(group.nodes[k]) = <<b>>

\* C4 as claimed: a group of two members with actions [create] and [no-op]
\* has state create, whichever of the two is the main node.
C4_CreateAndNoOpIsCreate ==
    \A i \in 1..Len(nodeGroups) :
        TwoMembersWith(nodeGroups[i], "create", "no-op") => nodeGroups[i].state = "create"

\* C5 as claimed: a group of two members with actions [no-op] and [read] has
\* state read, whichever of the two is the main node.
C5_NoOpAndReadIsRead ==
    \A i \in 1..Len(nodeGroups) :
        TwoMembersWith(nodeGroups[i], "no-op", "read") => nodeGroups[i].state = "read"

\* C6 as claimed: a group of two members with actions [create] and [delete]
\* has state update, whichever of the two is the main node.
C6_CreateAndDeleteIsUpdate ==
    \A i \in 1..Len(nodeGroups) :
        TwoMembersWith(nodeGroups[i], "create", "delete") => nodeGroups[i].state = "update"

ModuleNames == {"vpc", "db"}

Residuals ==
    {<<"aws_subnet", "this">>, <<"data", "aws_ami", "ubuntu">>, <<"var", "cidr">>,
     <<"module", "inner", "aws_instance", "web">>, <<"aws_instance">>}

\* C7: a block reference module.<m>.<rest> is split into the module name <m>
\* and the residual <rest>, which is the processed block id of a resource;
\* and every group's moduleName is the <m> of its main node's reference, ""
\* when the reference does not start with "module.".  The classifier is a
\* pure function: its part is evaluated where no pass has started yet.
C7_ModuleAttachment ==
    /\ pc = "idle" =>
          \A m \in ModuleNames, rest \in Residuals :
              LET ref == <<"module", m>> \o rest
              IN  /\ StripModule(ref) = [moduleName |-> m, blockId |-> rest]
                  /\ checkHclBlockType(ref).moduleName = m
                  /\ rest[1] \in AwsSegments => checkHclBlockType(ref).processedBlockId = rest
    /\ \A i \in 1..Len(nodeGroups) :
          LET ref == nodeGroups[i].mainNode.ref
          IN  nodeGroups[i].moduleName = IF ref[1] = "module" /\ Len(ref) > 1 THEN ref[2] ELSE ""

\* the group of "n3 module.vpc.aws_subnet.this" stands beside a group outside any module
C7_Witness ==
    /\ pc = "done"
    /\ \E i, j \in 1..Len(nodeGroups) :
          /\ nodeGroups[i].mainNode = Subnet /\ nodeGroups[i].moduleName = "vpc"
          /\ nodeGroups[i].id = <<"module", "vpc", "aws_subnet", "this">>
          /\ nodeGroups[j].mainNode = Web /\ nodeGroups[j].moduleName = ""

\* C8: the category step removes exactly the groups whose category is
\* deselected, and leaves every other group as it was, in the same order.
C8_CategoryExclusionExact ==
    [][pc = "pruned" =>
          /\ \A i \in 1..Len(nodeGroups) :
                KeyIndex(nodeGroups', nodeGroups[i].id) = 0
                    <=> Includes(deselectedCategoriesRef, nodeGroups[i].category)
          /\ \A k \in 1..Len(nodeGroups') :
                \E i \in 1..Len(nodeGroups) : nodeGroups'[k] = nodeGroups[i]
          /\ Len(nodeGroups') = Cardinality({nodeGroups'[k].id : k \in 1..Len(nodeGroups')})
      ]_vars

\* the category step has removed the groups of a deselected category that
\* had groups, and has kept a group
C8_Witness ==
    /\ pc = "categoryFiltered"
    /\ \E c \in Range(categoriesRef) : Includes(deselectedCategoriesRef, c)
    /\ nodeGroups # <<>>

\* C9: at the end of a pass every id in a group's connectionsOut or
\* connectionsIn is the id of a group of the resulting map.
C9_ConnectionsAmongSurvivors ==
    pc = "done" =>
        \A i \in 1..Len(nodeGroups) :
            \A key \in Range(nodeGroups[i].connectionsOut) \cup Range(nodeGroups[i].connectionsIn) :
                KeyIndex(nodeGroups, key) # 0

\* the instance group was removed by category exclusion, and the edges
\* between its members and the surviving subnet group left no connection
C9_Witness ==
    /\ pc = "done"
    /\ Includes(deselectedCategoriesRef, "Compute") /\ Includes(categoriesRef, "Compute")
    /\ Includes(model.edges, Edge(Subnet, Sg))
    /\ \E i \in 1..Len(nodeGroups) :
          /\ nodeGroups[i].mainNode = Subnet
          /\ nodeGroups[i].connectionsOut = <<>>
    /\ ~isNodePresent(nodeGroups, Sg)

IsScenario ==
    /\ model = ScenarioGraph
    /\ planJson = ScenarioPlan
    /\ deselectedCategoriesRef = <<>>
    /\ selectedTagsRef = <<>>
    /\ pc = "done"

\* C10 as claimed: the scenario yields one group, "aws_instance.web", with
\* the two members n1 and n2 and state create, for either show-inactive flag.
C10_ScenarioTwoMembers ==
    IsScenario =>
        /\ Len(nodeGroups) = 1
        /\ nodeGroups[1].id = <<"aws_instance", "web">>
        /\ [j \in 1..Len(nodeGroups[1].nodes) |-> nodeGroups[1].nodes[j].nodeModel] = <<Web, Sg>>
        /\ nodeGroups[1].state = "create"

\* C10 as amended: the scenario yields one group, "aws_instance.web", with
\* state create, for either show-inactive flag; its members are n1 and n2
\* when show-inactive is on and n1 alone when it is off.
C10_ScenarioPrunedMember ==
    IsScenario =>
        /\ Len(nodeGroups) = 1
        /\ nodeGroups[1].id = <<"aws_instance", "web">>
        /\ [j \in 1..Len(nodeGroups[1].nodes) |-> nodeGroups[1].nodes[j].nodeModel]
              = IF showInactive THEN <<Web, Sg>> ELSE <<Web>>
        /\ nodeGroups[1].state = "create"

\* the scenario's pass has completed with show-inactive off
C10_Witness == IsScenario /\ ~showInactive /\ Len(nodeGroups) = 1

\* the ids of the groups and of their members, in order
Membership(groups) ==
    [i \in 1..Len(groups) |->
        [id |-> groups[i].id,
         members |-> [j \in 1..Len(groups[i].nodes) |-> groups[i].nodes[j].nodeModel]]]

\* C11 as claimed: on a graph with its subgraph and whatever well-formed plan
\* is supplied, the pass reaches the end of expansion as the pass without
\* plan does, with the same groups and the same members; and without plan
\* every group's state is no-op.
C11_PlanIndependentAbsorption ==
    (model.subgraphs = 1 /\ planJson.parses) =>
        /\ pc # "thrown"
        /\ pc = "expanded" =>
              Membership(nodeGroups)
                  = Membership(Expanded(Seeded(model, jsonArray, NoPlan), model, jsonArray, NoPlan))
        /\ (pc = "expanded" /\ planJson = NoPlan) =>
              \A i \in 1..Len(nodeGroups) : nodeGroups[i].state = "no-op"

\* the resource type the lookups of a node use
TypeOf(nodeId) == getResourceNameAndType(checkHclBlockType(nodeId.ref).processedBlockId).resourceType

\* the types some row lists as main block, missing resource or data source
MappedTypes(rows) ==
    UNION {Range(rows[i].MainDiagramBlocks) \cup Range(rows[i].MissingResources)
               \cup Range(rows[i].DataSources) : i \in 1..Len(rows)}

\* C12: at every point of every pass, with or without detailed mode, every
\* member of every group (the main node of a seeded or orphan group among
\* them) has a resource type that some row of the table lists; a node whose
\* type is listed nowhere is no member and seeds nothing.
C12_UnmappedTypeDropped ==
    \A p \in MemberPlaces(nodeGroups) : TypeOf(MemberAt(nodeGroups, p)) \in MappedTypes(jsonArray)

\* a detailed pass has completed on a graph where the unmapped widget is
\* declared and has an edge to the main node of a group
C12_Witness ==
    /\ pc = "done"
    /\ detailed
    /\ Includes(model.nodes, Widget) /\ Includes(model.edges, Edge(Widget, Web))
    /\ isNodePresent(nodeGroups, Web)
    /\ ~isNodePresent(nodeGroups, Widget)

\* C13 as claimed: at the end of a pass no group lists its own id in its
\* connectionsOut or connectionsIn, and no id occurs twice in one of these
\* lists; an edge between two members of one group records nothing.
C13_SimpleConnectivity ==
    pc = "done" =>
        \A i \in 1..Len(nodeGroups) :
            LET out == nodeGroups[i].connectionsOut
                in == nodeGroups[i].connectionsIn
            IN  /\ ~Includes(out, nodeGroups[i].id) /\ ~Includes(in, nodeGroups[i].id)
                /\ Cardinality(Range(out)) = Len(out) /\ Cardinality(Range(in)) = Len(in)

\* C14: the expansion of every seeded map returns, on graphs with directed
\* cycles, two-node cycles between absorbable satellites and self-edges; and
\* it has expanded from (made a member of) at most as many nodes as the graph
\* declares.
C14_ExpansionTerminates ==
    /\ (pc = "seeded") ~> (pc = "expanded")
    /\ [](pc = "expanded" => Cardinality(MemberPlaces(nodeGroups)) <= Len(model.nodes))

\* the expansion has returned on the graph where the satellites n2 and n4
\* point at each other, with both of them claimed
C14_Witness ==
    /\ pc = "expanded"
    /\ Includes(model.edges, Edge(Sg, Ami)) /\ Includes(model.edges, Edge(Ami, Sg))
    /\ isNodePresent(nodeGroups, Sg) /\ isNodePresent(nodeGroups, Ami)

\* C15 as claimed: a pass over the graph without subgraph, a pass with a plan
\* without resource changes and a pass with a table without rows (the plan
\* text, if any, being well-formed) raise no error and end with no group.
C15_DegenerateInputsYieldNoGroups ==
    (planJson.parses /\ (model = NoSubgraph \/ planJson = Plan(<<>>) \/ jsonArray = EmptyTable)) =>
        /\ pc # "thrown"
        /\ pc = "done" => nodeGroups = <<>>

\* C16 as claimed: once a pass has been started on a plan text that does not
\* parse, the loading state is the error state, and the pass has computed
\* and stored no groups.
C16_MalformedPlanIsLoadError ==
    (planJson.present /\ ~planJson.parses /\ pc # "idle") =>
        /\ loadingState = "error"
        /\ nodeGroups = <<>>
        /\ storedNodeGroups = <<>>

\* C17: with a plan and show-inactive off, the pruning sweep leaves only
\* groups whose main node is still a member and has a change record in the
\* plan, only members with at least one change record and no group without
\* member; and it removes every group whose main node has no change record
\* in the plan, whatever its other members have.
C17_PruningSweep ==
    [][(pc = "orphaned" /\ pc' = "pruned" /\ planJson.present /\ ~showInactive) =>
          /\ \A k \in 1..Len(nodeGroups') :
                LET g == nodeGroups'[k]
                IN  /\ g.nodes # <<>>
                    /\ g.mainNode \in MemberIds(g)
                    /\ ChangesOf(planJson, g.mainNode.ref) # <<>>
                    /\ \A j \in 1..Len(g.nodes) : Len(g.nodes[j].resourceChanges) > 0
          /\ \A i \in 1..Len(nodeGroups) :
                ChangesOf(planJson, nodeGroups[i].mainNode.ref) = <<>>
                    => KeyIndex(nodeGroups', nodeGroups[i].id) = 0
      ]_vars

\* the sweep has removed the group of n1, which has no change record, though
\* its absorbed member n2 has one
C17_Witness ==
    /\ pc = "pruned"
    /\ ~showInactive
    /\ model = ScenarioGraph
    /\ ChangesOf(planJson, Web.ref) = <<>> /\ ChangesOf(planJson, Sg.ref) # <<>>
    /\ nodeGroups = <<>>

\* some row with the group's type among its main blocks lists the type in the column
ListedFor(rows, groupType, column, resourceType) ==
    \E i \in 1..Len(rows) :
        /\ Includes(rows[i].MainDiagramBlocks, groupType)
        /\ Includes(rows[i][column], resourceType)

\* C18 as claimed: after expansion every absorbed member (every member but
\* the main node) is a Resource whose type is a missing resource of a row of
\* the group's type, or a Data node whose type is a data source of such a
\* row.
C18_AbsorbedByKindAndColumn ==
    pc = "expanded" =>
        \A i \in 1..Len(nodeGroups) : \A j \in 2..Len(nodeGroups[i].nodes) :
            LET n == nodeGroups[i].nodes[j].nodeModel
            IN  \/ /\ KindOf(n) = "Resource"
                   /\ ListedFor(jsonArray, nodeGroups[i].type, "MissingResources", TypeOf(n))
                \/ /\ KindOf(n) = "Data"
                   /\ ListedFor(jsonArray, nodeGroups[i].type, "DataSources", TypeOf(n))

\* the node could be absorbed into a group of this type, were it unclaimed:
\* the tests of lines 507-526 but the one on isNodePresent
EligibleFor(groupType, nodeId, subgraph, rows) ==
    /\ nodeId.ref # <<>>
    /\ LET c == checkHclBlockType(nodeId.ref)
           rt == getResourceNameAndType(c.processedBlockId)
       IN  /\ c.isResourceWithName \/ c.isData
           /\ rt.resourceType # undefined /\ rt.resourceName # undefined
           /\ Eligible(rows, groupType, rt.resourceType)
    /\ Includes(subgraph.nodes, nodeId)

\* C19: after seeding and expansion, every declared node that an edge joins,
\* in either direction, to a member of a group and that the table makes
\* eligible for that group is a member of some group.
C19_ExpansionFixpoint ==
    pc = "expanded" =>
        \A i \in 1..Len(nodeGroups) : \A m \in MemberIds(nodeGroups[i]) :
            \A k \in 1..Len(model.edges) : \A far \in {1, 2} :
                LET n == model.edges[k].targets[far]
                IN  (model.edges[k].targets[3 - far] = m
                        /\ EligibleFor(nodeGroups[i].type, n, model, jsonArray))
                    => isNodePresent(nodeGroups, n)

\* the data source n4, joined to the main node only through the satellite n2,
\* has been claimed from n2
C19_Witness ==
    /\ pc = "expanded"
    /\ Includes(model.edges, Edge(Web, Sg)) /\ Includes(model.edges, Edge(Sg, Ami))
    /\ ~Includes(model.edges, Edge(Web, Ami))
    /\ \E i \in 1..Len(nodeGroups) :
          nodeGroups[i].mainNode = Web /\ {Sg, Ami} \subseteq MemberIds(nodeGroups[i])

\* the place of the first row that lists the type among its main types
FirstRowFor(rows, resourceType) ==
    CHOOSE i \in 1..Len(rows) :
        /\ Includes(rows[i].MainDiagramBlocks, resourceType)
        /\ \A j \in 1..(i - 1) : ~Includes(rows[j].MainDiagramBlocks, resourceType)

\* C20: the group seeded for a node takes its category, service name, icon
\* path and name (resolved through the name attribute) from the first row of
\* the table that lists the node's type as a main type.
C20_FirstMatchingRowWins ==
    pc = "seeded" =>
        \A i \in 1..Len(nodeGroups) :
            LET g == nodeGroups[i]
                row == jsonArray[FirstRowFor(jsonArray, g.type)]
            IN  /\ g.category = row.SimplifiedCategory
                /\ g.serviceName = row.ServiceName
                /\ g.iconPath = row.IconPath
                /\ g.name = ResolveName(row, TRUE, g.type, g.nodes[1].resourceChanges,
                                        getResourceNameAndType(checkHclBlockType(g.id).processedBlockId).resourceName)

\* C21: the state of a group just seeded is the state the precedence gives
\* to the action tags of the main node's change records, in whatever order
\* the plan lists the records: no-op and read give way to any other tag,
\* read prevails over no-op, one other tag is itself and two different other
\* tags are update.
C21_SeedFoldFollowsPrecedence ==
    pc = "seeded" =>
        \A i \in 1..Len(nodeGroups) :
            LET tags == Range(MemberTags(nodeGroups[i].nodes[1]))
                high == {t \in tags : t \notin NoOpOrRead}
            IN  nodeGroups[i].state =
                    IF high = {} THEN (IF "read" \in tags THEN "read" ELSE "no-op")
                    ELSE IF Cardinality(high) = 1 THEN CHOOSE t \in high : TRUE
                    ELSE "update"

\* C22: the state the seed-level fold gave to a group just seeded equals the
\* state the node-level fold of getConnectedNodes computes from the same
\* change records.
C22_FoldsAgree ==
    pc = "seeded" =>
        \A i \in 1..Len(nodeGroups) :
            nodeGroups[i].state = NodeGeneralState(nodeGroups[i].nodes[1].resourceChanges)

\* C23: after the connectivity step no two different groups list each other
\* in connectionsOut: a pair of groups is recorded in one direction only.
C23_PairRecordedOnce ==
    pc = "done" =>
        \A a, b \in 1..Len(nodeGroups) :
            (a # b /\ Includes(nodeGroups[a].connectionsOut, nodeGroups[b].id))
                => ~Includes(nodeGroups[b].connectionsOut, nodeGroups[a].id)

\* the selected tag keys found in after.tags_all of the change records of the
\* group's members
SelectedKeysOf(group, selected) ==
    {key \in Range(selected) :
        \E j \in 1..Len(group.nodes) : \E k \in 1..Len(group.nodes[j].resourceChanges) :
            LET after == group.nodes[j].resourceChanges[k].change.after
            IN  after.present /\ key \in Range(after.tags_all)}

\* C24: the tag step keeps, in their order, exactly the groups of which some
\* member has a change record whose after.tags_all holds a selected tag key,
\* and with no tag selected it removes no group.
C24_TagInclusion ==
    [][(pc = "categoryFiltered" /\ pc' = "tagFiltered") =>
          /\ selectedTagsRef = <<>> => nodeGroups' = nodeGroups
          /\ selectedTagsRef # <<>> =>
                /\ \A i \in 1..Len(nodeGroups) :
                      KeyIndex(nodeGroups', nodeGroups[i].id) # 0
                          <=> SelectedKeysOf(nodeGroups[i], selectedTagsRef) # {}
                /\ \A k \in 1..Len(nodeGroups') :
                      \E i \in 1..Len(nodeGroups) : nodeGroups'[k] = nodeGroups[i]
      ]_vars

\* with the tag env selected, the group of n1 is kept, and a group of another
\* category, not deselected, is gone
C24_Witness ==
    /\ pc = "tagFiltered"
    /\ selectedTagsRef = <<"env">>
    /\ \E i \in 1..Len(nodeGroups) :
          /\ nodeGroups[i].mainNode = Web
          /\ SelectedKeysOf(nodeGroups[i], selectedTagsRef) = {"env"}
    /\ \E c \in Range(categoriesRef) :
          /\ ~Includes(deselectedCategoriesRef, c)
          /\ \A i \in 1..Len(nodeGroups) : nodeGroups[i].category # c

\* C25: the category step sets the category list to the categories of the
\* groups left by pruning, each once and in ascending order, before any
\* deselected category is excluded, and the rest of the pass leaves the list
\* as it is.
C25_CategoryList ==
    [][/\ (pc = "pruned" /\ pc' = "categoryFiltered") =>
            /\ \A i, j \in 1..Len(categoriesRef') :
                  i < j => CategoryRank(categoriesRef'[i]) < CategoryRank(categoriesRef'[j])
            /\ Range(categoriesRef') = {nodeGroups[i].category : i \in 1..Len(nodeGroups)}
       /\ pc \in {"categoryFiltered", "tagFiltered"} => categoriesRef' = categoriesRef
      ]_vars

\* the pass is over, Networking is deselected and none of its groups is left,
\* and the list still offers it after Compute, though a subnet comes before
\* the instance in the graph
C25_Witness ==
    /\ pc = "done"
    /\ Includes(deselectedCategoriesRef, "Networking")
    /\ categoriesRef = <<"Compute", "Networking">>
    /\ \A i \in 1..Len(nodeGroups) : nodeGroups[i].category = "Compute"
    /\ nodeGroups # <<>>
    /\ model.nodes[1] = Subnet

\* the groups that seeding and expansion made are still there, unchanged and
\* in their places, and every group added after them has one member, a
\* declared node that no group held, and is keyed by that node's address
OrphansApart(before, after, subgraph) ==
    /\ Len(after) >= Len(before)
    /\ \A i \in 1..Len(before) : after[i] = before[i]
    /\ \A k \in (Len(before) + 1)..Len(after) :
          /\ Len(after[k].nodes) = 1
          /\ after[k].nodes[1].nodeModel = after[k].mainNode
          /\ after[k].id = after[k].mainNode.ref
          /\ Includes(subgraph.nodes, after[k].mainNode)
          /\ ~isNodePresent(before, after[k].mainNode)

C27_ConnectivitySymmetric ==
    pc = "done" =>
        \A a, b \in 1..Len(nodeGroups) :
            LET out == Includes(nodeGroups[a].connectionsOut, nodeGroups[b].id)
                in == Includes(nodeGroups[b].connectionsIn, nodeGroups[a].id)
                joined == \E k \in 1..Len(model.edges) :
                              /\ model.edges[k].targets[1] \in MemberIds(nodeGroups[a])
                              /\ model.edges[k].targets[2] \in MemberIds(nodeGroups[b])
            IN  (out <=> in) /\ (out <=> joined)

\* the pass is over with the group of n1, which holds n2, and the group of
\* n3; the edge from n3 to the member n2 is recorded from the subnet's group
\* to the instance's group, and nothing the other way
C27_Witness ==
    /\ pc = "done"
    /\ \E a, b \in 1..Len(nodeGroups) :
          /\ nodeGroups[a].mainNode = Subnet /\ nodeGroups[b].mainNode = Web
          /\ Sg \in MemberIds(nodeGroups[b])
          /\ Includes(model.edges, Edge(Subnet, Sg))
          /\ nodeGroups[a].connectionsOut = <<nodeGroups[b].id>>
          /\ Includes(nodeGroups[b].connectionsIn, nodeGroups[a].id)
          /\ ~Includes(nodeGroups[b].connectionsOut, nodeGroups[a].id)

\* C28: whenever a pass is over, every selected tag key is in the tag list
\* that the Tags menu offers for toggling.
C28_SelectedTagsOffered ==
    pc = "done" => Range(selectedTagsRef) \subseteq Range(tagsRef)

=============================================================================
